---- MODULE Spec2Model ----
(***************************************************************************)
(* Chunked card-pattern extraction (app.py): extract_card_details_chunked, *)
(* validate_card_format and process_large_text.                            *)
(*                                                                         *)
(* A Python str is modelled as a sequence of one-character strings.  The   *)
(* three regular expressions are modelled by matchers that follow the      *)
(* regex engine: leftmost match, greedy quantifiers, backtracking, \b, $   *)
(* and the lookahead of the no-CVV pattern.                                *)
(***************************************************************************)
EXTENDS Integers, Sequences, FiniteSets, TLC

----------------------------------------------------------------------------
(* Characters *)

Digits == {"0", "1", "2", "3", "4", "5", "6", "7", "8", "9"}

Letters ==
  {"a", "b", "c", "d", "e", "f", "g", "h", "i", "j", "k", "l", "m", "n", "o",
   "p", "q", "r", "s", "t", "u", "v", "w", "x", "y", "z", "A", "B", "C", "D",
   "E", "F", "G", "H", "I", "J", "K", "L", "M", "N", "O", "P", "Q", "R", "S",
   "T", "U", "V", "W", "X", "Y", "Z"}

\* \w of the re module
IsWord(c) == c \in Digits \/ c \in Letters \/ c = "_"

\* \s of the re module, and the characters str.rstrip() removes
IsSpace(c) == c \in {" ", "\t", "\n", "\r", "\f"}

\* \d
IsDigit(c) == c \in Digits

\* mutant: the class without the parenthesis, [^\n\r]
IsTrailingChar_Paren(c) == c \notin {"\n", "\r"}

\* the class [^(\n\r] of card_pattern_trailing
IsTrailingChar(c) == c \notin {"(", "\n", "\r"}

Min(a, b) == IF a <= b THEN a ELSE b

----------------------------------------------------------------------------
(* str methods used by the code *)

\* text[a:b] with 0-based a, b as in Python (b may exceed the length)
Slice(s, a, b) == SubSeq(s, a + 1, Min(b, Len(s)))

\* str.rstrip(): the prefix up to the last character that is not whitespace
RStripLen(s) ==
  CHOOSE n \in 0..Len(s) :
    /\ n = 0 \/ ~IsSpace(s[n])
    /\ \A r \in (n + 1)..Len(s) : IsSpace(s[r])

RStrip(s) == SubSeq(s, 1, RStripLen(s))

\* str.strip() is empty
IsBlank(s) == \A k \in 1..Len(s) : IsSpace(s[k])

\* str.split('|'): the fields between the pipes, empty fields kept
Split(s) ==
  LET pipes == {k \in 1..Len(s) : s[k] = "|"}
      \* the position of the j-th pipe; 0 before the first, Len(s) + 1 after the last
      pipe(j) ==
        IF j = 0 THEN 0
        ELSE IF j > Cardinality(pipes) THEN Len(s) + 1
        ELSE CHOOSE k \in pipes : Cardinality({m \in pipes : m <= k}) = j
  IN [j \in 1..(Cardinality(pipes) + 1) |-> SubSeq(s, pipe(j - 1) + 1, pipe(j) - 1)]

\* mutant: the key keeps the 4th field
CardKey_WithField4(parts) ==
  parts[1] \o <<"|">> \o parts[2] \o <<"|">> \o parts[3] \o <<"|">> \o parts[4]

\* mutant: the key without its final pipe
CardKey_NoTrailingPipe(parts) == parts[1] \o <<"|">> \o parts[2] \o <<"|">> \o parts[3]

\* '|'.join(parts[:3]) + '|'
CardKey(parts) == parts[1] \o <<"|">> \o parts[2] \o <<"|">> \o parts[3] \o <<"|">>

\* str.isdigit(): non-empty and all digits
IsDigitStr(s) == Len(s) > 0 /\ \A k \in 1..Len(s) : IsDigit(s[k])

DigitVal(c) ==
  CASE c = "0" -> 0 [] c = "1" -> 1 [] c = "2" -> 2 [] c = "3" -> 3
    [] c = "4" -> 4 [] c = "5" -> 5 [] c = "6" -> 6 [] c = "7" -> 7
    [] c = "8" -> 8 [] c = "9" -> 9

\* int(s) of a digit string
RECURSIVE IntOf(_, _)
IntOf(s, n) == IF n = 0 THEN 0 ELSE 10 * IntOf(s, n - 1) + DigitVal(s[n])

int(s) == IntOf(s, Len(s))

----------------------------------------------------------------------------
(* validate_card_format *)

CardDigits == 16
MonthDigits == 2
YearDigits == 4
MinMonth == 1
MaxMonth == 12
MinYear == 2020
MaxYear == 2040
CvvLens == {3, 4}

\* the checks of the 4th field onward, by format_type
FormatOk(parts, format_type) ==
  IF format_type = "with_cvv"
  THEN Len(parts) = 4 /\ IsDigitStr(parts[4]) /\ Len(parts[4]) \in CvvLens
  ELSE IF format_type = "no_cvv"
  THEN Len(parts) = 4 /\ IsBlank(parts[4])
  ELSE IF format_type = "trailing"
  THEN Len(parts) >= 4
  ELSE TRUE

\* mutant: the upper bound of the month off by one
MonthOk_OffByOne(month) ==
  IsDigitStr(month) /\ Len(month) = MonthDigits
    /\ MinMonth <= int(month) /\ int(month) <= MaxMonth + 1

MonthOk(month) ==
  IsDigitStr(month) /\ Len(month) = MonthDigits
    /\ MinMonth <= int(month) /\ int(month) <= MaxMonth

YearOk(year) ==
  IsDigitStr(year) /\ Len(year) = YearDigits
    /\ MinYear <= int(year) /\ int(year) <= MaxYear

validate_card_format(card_detail, format_type) ==
  LET parts == Split(card_detail) IN
  IF Len(parts) < 3 THEN FALSE
  ELSE IF ~(IsDigitStr(parts[1]) /\ Len(parts[1]) = CardDigits) THEN FALSE
  ELSE IF ~MonthOk(parts[2]) THEN FALSE
  ELSE IF ~YearOk(parts[3]) THEN FALSE
  ELSE FormatOk(parts, format_type)

----------------------------------------------------------------------------
(* The regular expressions.  A matcher takes the chunk s and a 1-based     *)
(* start p and gives the index just past the match, or 0 for no match.     *)

\* \b between s[p-1] and s[p]
WordBoundary(s, p) ==
  LET before == p > 1 /\ p - 1 <= Len(s) /\ IsWord(s[p - 1])
      after == p >= 1 /\ p <= Len(s) /\ IsWord(s[p])
  IN before # after

\* $ (no MULTILINE): at the end, or before a final newline
AtDollar(s, p) == p = Len(s) + 1 \/ (p = Len(s) /\ s[p] = "\n")

\* \d{n} at p
DigitsAt(s, p, n) ==
  p + n - 1 <= Len(s) /\ \A k \in p..(p + n - 1) : IsDigit(s[k])

PipeAt(s, p) == p <= Len(s) /\ s[p] = "|"

\* \b\d{16}\|\d{2}\|\d{4}\| , the common head of the three patterns
PrefixLen == CardDigits + 1 + MonthDigits + 1 + YearDigits + 1

MatchPrefix(s, p) ==
  IF /\ p <= Len(s) /\ IsDigit(s[p])
     /\ WordBoundary(s, p)
     /\ DigitsAt(s, p, CardDigits)
     /\ PipeAt(s, p + CardDigits)
     /\ DigitsAt(s, p + CardDigits + 1, MonthDigits)
     /\ PipeAt(s, p + CardDigits + 1 + MonthDigits)
     /\ DigitsAt(s, p + CardDigits + 2 + MonthDigits, YearDigits)
     /\ PipeAt(s, p + CardDigits + 2 + MonthDigits + YearDigits)
  THEN p + PrefixLen
  ELSE 0

\* card_pattern_with_cvv: head, then \d{3,4} (greedy: 4, then 3), then \b
MatchWithCvv(s, p) ==
  LET e == MatchPrefix(s, p) IN
  IF e = 0 THEN 0
  ELSE IF DigitsAt(s, e, 4) /\ WordBoundary(s, e + 4) THEN e + 4
  ELSE IF DigitsAt(s, e, 3) /\ WordBoundary(s, e + 3) THEN e + 3
  ELSE 0

\* the longest run of characters satisfying a class, from p: the index past it
SpaceRun(s, p) ==
  CHOOSE q \in p..(Len(s) + 1) :
    /\ q = Len(s) + 1 \/ ~IsSpace(s[q])
    /\ \A r \in p..(q - 1) : IsSpace(s[r])

TrailingRun(s, p) ==
  CHOOSE q \in p..(Len(s) + 1) :
    /\ q = Len(s) + 1 \/ ~IsTrailingChar(s[q])
    /\ \A r \in p..(q - 1) : IsTrailingChar(s[r])

\* the lookahead (?=\s|$|[^\d]) at p
NoCvvLookahead(s, p) ==
  \/ p <= Len(s) /\ IsSpace(s[p])
  \/ AtDollar(s, p)
  \/ p <= Len(s) /\ ~IsDigit(s[p])

\* \s* greedy, giving back one character at a time until the lookahead holds
RECURSIVE NoCvvBacktrack(_, _, _)
NoCvvBacktrack(s, e, q) ==
  IF NoCvvLookahead(s, q) THEN q
  ELSE IF q > e THEN NoCvvBacktrack(s, e, q - 1)
  ELSE 0

\* card_pattern_no_cvv
MatchNoCvv(s, p) ==
  LET e == MatchPrefix(s, p) IN
  IF e = 0 THEN 0 ELSE NoCvvBacktrack(s, e, SpaceRun(s, e))

\* card_pattern_trailing: head, \s+ (greedy), [^(\n\r]* (greedy)
MatchTrailing(s, p) ==
  LET e == MatchPrefix(s, p)
      w == SpaceRun(s, e)
  IN IF e = 0 \/ w = e THEN 0 ELSE TrailingRun(s, w)

Match(pattern, s, p) ==
  IF pattern = "with_cvv" THEN MatchWithCvv(s, p)
  ELSE IF pattern = "trailing" THEN MatchTrailing(s, p)
  ELSE MatchNoCvv(s, p)

\* the positions of s at which the pattern matches
MatchStarts(pattern, s) == {p \in 1..Len(s) : Match(pattern, s, p) # 0}

\* re.findall(pattern, chunk): the non-overlapping matches, left to right; the
\* scan resumes at the end of each match
RECURSIVE FindFrom(_, _, _, _)
FindFrom(pattern, s, starts, p) ==
  LET later == {q \in starts : q >= p} IN
  IF later = {} THEN <<>>
  ELSE LET q == CHOOSE x \in later : \A y \in later : x <= y
           e == Match(pattern, s, q)
       IN <<SubSeq(s, q, e - 1)>> \o FindFrom(pattern, s, starts, e)

findall(pattern, s) == FindFrom(pattern, s, MatchStarts(pattern, s), 1)

----------------------------------------------------------------------------
(* Inputs.  A text is made of up to MaxTokens pieces: card-like tokens,     *)
(* after a pad of PadLen blanks or not.                                    *)

Overlap == 300
DefaultChunkSize == 10000

MaxTokens == 2
PadLen == 400
MaxCut == 3
MidChunk == 39
MaxDisplay == 2

Rep(c, n) == [k \in 1..n |-> c]

CardA == <<"4">> \o Rep("1", 15) \o <<"|", "0", "1", "|", "2", "0", "2", "5", "|">>
CardB == <<"5", "5">> \o Rep("0", 13) \o <<"4", "|", "1", "2", "|", "2", "0", "4", "0", "|">>
\* month 13: matched by the patterns, rejected by validate_card_format
CardBad == <<"4">> \o Rep("1", 15) \o <<"|", "1", "3", "|", "2", "0", "2", "5", "|">>

Tokens ==
  { CardA \o <<"1", "2", "3", " ">>,
    CardA \o <<"1", "2", "3", "4">>,
    CardA,
    CardA \o <<"\n">>,
    CardA \o <<" ", "9", ".", "9", "9", " ", "U", "S", "D", " ", "(", "a", "b", "c", ")", " ", "x", "\n">>,
    CardB \o <<"1", "2", "3", "\n">>,
    CardB \o <<" ", " ">>,
    CardBad \o <<"1", "2", "3", " ">>,
    <<"9">> }

Pad == Rep(" ", PadLen)

RECURSIVE Concat(_)
Concat(ss) == IF ss = <<>> THEN <<>> ELSE Head(ss) \o Concat(Tail(ss))

TokenLists(max) == UNION {[1..n -> Tokens] : n \in 0..max}

Texts ==
  {Concat(ts) : ts \in TokenLists(MaxTokens)}
    \cup {Pad \o Concat(ts) : ts \in TokenLists(MaxTokens - 1)}

\* chunk sizes of a direct call: for a text that fits one window, 1 and MidChunk;
\* for a longer text, the sizes that end the first window 0..MaxCut characters
\* into the 4th field of the first token
ChunkSizes(t) ==
  IF Len(t) <= Overlap THEN {1, MidChunk}
  ELSE {PadLen + PrefixLen + c - Overlap : c \in 0..MaxCut}

----------------------------------------------------------------------------
(* State *)

VARIABLES
  text, chunk_size, include_no_cvv, include_trailing_info,  \* arguments
  caller, max_display_results,    \* "direct", or "process" (process_large_text)
  pc, i, matches, k, seen,        \* the generator's position and locals
  yielded,                        \* history: what the generator has yielded,
                                  \* and in which chunk, pass and iteration
  display_results, total_count, download_buffer,  \* process_large_text locals
  returned,                       \* what process_large_text returned
  fields, format_type, vpc, valid, \* a call of validate_card_format alone
  run, previous                   \* which call of the generator this is, and
                                  \* the chunk size and the output of the one before

args == <<text, chunk_size, include_no_cvv, include_trailing_info, caller,
          max_display_results>>
gen == <<pc, i, matches, k, seen>>
acc == <<display_results, total_count, download_buffer>>
val == <<fields, format_type, vpc, valid>>
calls == <<run, previous>>
vars == <<args, gen, yielded, acc, returned, val, calls>>

NoCall == [chunk_size |-> 0, cards |-> <<>>]

NoResult == [display |-> <<>>, total |-> 0 - 1, content |-> <<>>]

\* process_large_text calls the extractor with the default chunk_size
Init ==
  /\ text \in Texts
  /\ include_no_cvv \in BOOLEAN
  /\ include_trailing_info \in BOOLEAN
  /\ \/ /\ caller = "direct"
        /\ chunk_size \in ChunkSizes(text)
        /\ max_display_results = 0
     \/ /\ caller = "process"
        /\ Len(text) <= Overlap
        /\ chunk_size = DefaultChunkSize
        /\ max_display_results \in 0..MaxDisplay
  /\ pc = "loop"
  /\ i = 0
  /\ matches = <<>>
  /\ k = 1
  /\ seen = {}
  /\ yielded = <<>>
  /\ display_results = <<>>
  /\ total_count = 0
  /\ download_buffer = <<>>
  /\ returned = NoResult
  /\ fields = <<>>
  /\ format_type = "with_cvv"
  /\ vpc = "idle"
  /\ valid = FALSE
  /\ run = 1
  /\ previous = NoCall

\* mutant: the window without its overlap
chunk_NoOverlap == Slice(text, i, i + chunk_size)

\* chunk = text[i:i + chunk_size + 300]
chunk == Slice(text, i, i + chunk_size + Overlap)

\* the three passes over a chunk, in the order of the code
Families == <<"with_cvv", "trailing", "no_cvv">>

\* mutant: the flags are not consulted
Enabled_Always(family) == TRUE

\* with-CVV always; if include_trailing_info; if include_no_cvv
Enabled(family) ==
  \/ family = "with_cvv"
  \/ family = "trailing" /\ include_trailing_info
  \/ family = "no_cvv" /\ include_no_cvv

\* matches_with_cvv, matches_trailing, matches_no_cvv of the current chunk
Found(n) == IF Enabled(Families[n]) THEN findall(Families[n], chunk) ELSE <<>>

\* the first pass from the n-th on that has a match to iterate over, with its
\* matches; pass 0 if there is none
RECURSIVE NextPass(_)
NextPass(n) ==
  IF n > Len(Families) THEN [pass |-> 0, found |-> <<>>]
  ELSE LET found == Found(n) IN
       IF found # <<>> THEN [pass |-> n, found |-> found]
       ELSE NextPass(n + 1)

\* control moves to the first iteration of the next non-empty for loop of this
\* chunk, or to the head of the chunk loop with the next i of the range
Enter(n) ==
  LET next == NextPass(n) IN
  IF next.pass = 0
  THEN /\ pc' = "loop"
       /\ i' = i + chunk_size
       /\ matches' = <<>>
       /\ k' = 1
  ELSE /\ pc' = Families[next.pass]
       /\ i' = i
       /\ matches' = next.found
       /\ k' = 1

\* after the body of an iteration of the n-th pass: the next match, or Enter
Continue(n) ==
  IF k < Len(matches)
  THEN k' = k + 1 /\ UNCHANGED <<pc, i, matches>>
  ELSE Enter(n + 1)

\* mutant: the count is capped with the display list
Consume_CountCapped(card) ==
  IF caller = "process"
  THEN /\ download_buffer' = download_buffer \o card \o <<"\n">>
       /\ IF Len(display_results) < max_display_results
          THEN /\ display_results' = Append(display_results, card)
               /\ total_count' = total_count + 1
          ELSE UNCHANGED <<display_results, total_count>>
  ELSE UNCHANGED acc

\* the body of the for loop of process_large_text, run at each yield
Consume(card) ==
  IF caller = "process"
  THEN /\ total_count' = total_count + 1
       /\ download_buffer' = download_buffer \o card \o <<"\n">>
       /\ display_results' =
            IF Len(display_results) < max_display_results
            THEN Append(display_results, card)
            ELSE display_results
  ELSE UNCHANGED acc

\* mutant: the newest string comes first
Yield_Prepend(card, family) ==
  /\ yielded' = <<[card |-> card, family |-> family, at |-> i, index |-> k]>>
                  \o yielded
  /\ Consume(card)

\* yield: the consumer receives the strings in the order of the yields
Yield(card, family) ==
  /\ yielded' = Append(yielded, [card |-> card, family |-> family,
                                 at |-> i, index |-> k])
  /\ Consume(card)

\* for i in range(0, len(text), chunk_size): the next chunk is read and searched
NextChunk ==
  /\ pc = "loop"
  /\ i < Len(text)
  /\ Enter(1)
  /\ UNCHANGED <<args, seen, yielded, acc, returned, val, calls>>

\* mutant: no deduplication
Unseen_Always(key) == TRUE

\* "not in seen"
Unseen(key) == key \notin seen

\* one iteration of: for match in matches_with_cvv
WithCvvMatch ==
  /\ pc = "with_cvv"
  /\ LET match == matches[k] IN
       IF Unseen(match) /\ validate_card_format(match, "with_cvv")
       THEN seen' = seen \cup {match} /\ Yield(match, "with_cvv")
       ELSE UNCHANGED <<seen, yielded, acc>>
  /\ Continue(1)
  /\ UNCHANGED <<args, returned, val, calls>>

\* one iteration of: for match in matches_trailing
TrailingMatch ==
  /\ pc = "trailing"
  /\ LET clean_match == RStrip(matches[k])
         parts == Split(clean_match)
     IN IF /\ Len(parts) >= 4
           /\ Unseen(CardKey(parts))
           /\ validate_card_format(clean_match, "trailing")
        THEN seen' = seen \cup {CardKey(parts)} /\ Yield(clean_match, "trailing")
        ELSE UNCHANGED <<seen, yielded, acc>>
  /\ Continue(2)
  /\ UNCHANGED <<args, returned, val, calls>>

\* mutant: the '|' is appended without the test
NoCvvClean_AlwaysAppend(match) == RStrip(match) \o <<"|">>

\* clean_match = match.rstrip(), with a '|' appended unless it ends with one
NoCvvClean(match) ==
  LET clean_match == RStrip(match) IN
  IF Len(clean_match) > 0 /\ clean_match[Len(clean_match)] = "|"
  THEN clean_match
  ELSE clean_match \o <<"|">>

\* one iteration of: for match in matches_no_cvv
NoCvvMatch ==
  /\ pc = "no_cvv"
  /\ LET clean_match == NoCvvClean(matches[k]) IN
       IF Unseen(clean_match) /\ validate_card_format(clean_match, "no_cvv")
       THEN seen' = seen \cup {clean_match} /\ Yield(clean_match, "no_cvv")
       ELSE UNCHANGED <<seen, yielded, acc>>
  /\ Continue(3)
  /\ UNCHANGED <<args, returned, val, calls>>

\* the range is exhausted: the generator ends; process_large_text returns
\* (display_results, total_count, download_buffer.getvalue())
Finish ==
  /\ pc = "loop"
  /\ i >= Len(text)
  /\ pc' = "done"
  /\ returned' =
       IF caller = "process"
       THEN [display |-> display_results, total |-> total_count,
             content |-> download_buffer]
       ELSE returned
  /\ UNCHANGED <<args, i, matches, k, seen, yielded, acc, val, calls>>

\* mutant: the handler returns what was accumulated
Raise_Partial ==
  /\ caller = "process"
  /\ pc \notin {"done", "failed"}
  /\ pc' = "failed"
  /\ returned' = [display |-> display_results, total |-> total_count,
                  content |-> download_buffer]
  /\ UNCHANGED <<args, i, matches, k, seen, yielded, acc, val, calls>>

\* except Exception: return [], 0, ""  (an exception raised while the loop of
\* process_large_text drives the generator)
Raise ==
  /\ caller = "process"
  /\ pc \notin {"done", "failed"}
  /\ pc' = "failed"
  /\ returned' = [display |-> <<>>, total |-> 0, content |-> <<>>]
  /\ UNCHANGED <<args, i, matches, k, seen, yielded, acc, val, calls>>

Next ==
  \/ NextChunk
  \/ WithCvvMatch
  \/ TrailingMatch
  \/ NoCvvMatch
  \/ Finish
  \/ Raise

Spec == Init /\ [][Next]_vars

----------------------------------------------------------------------------
(* The generator called a second time on the same text with the same flags, *)
(* with the same chunk size or with one window over the whole text          *)

\* the strings the generator has yielded, in order
Cards == [n \in 1..Len(yielded) |-> yielded[n].card]

\* a chunk size that puts the whole text in the first window
WholeSize(t) == IF Len(t) = 0 THEN 1 ELSE Len(t)

\* mutant: the set of the previous call is still there
FreshSeen_Kept == seen

\* seen = set(), executed by each call
FreshSeen == {}

\* the texts called twice: one piece less than Texts
TextsTwice ==
  {Concat(ts) : ts \in TokenLists(MaxTokens - 1)}
    \cup {Pad \o Concat(ts) : ts \in TokenLists(MaxTokens - 1)}

InitTwice == Init /\ caller = "direct" /\ text \in TextsTwice

CallAgain ==
  /\ pc = "done"
  /\ run = 1
  /\ run' = 2
  /\ previous' = [chunk_size |-> chunk_size, cards |-> Cards]
  /\ chunk_size' \in {chunk_size, WholeSize(text)}
  /\ pc' = "loop"
  /\ i' = 0
  /\ matches' = <<>>
  /\ k' = 1
  /\ seen' = FreshSeen
  /\ yielded' = <<>>
  /\ UNCHANGED <<text, include_no_cvv, include_trailing_info, caller,
                 max_display_results, acc, returned, val>>

NextTwice ==
  \/ NextChunk
  \/ WithCvvMatch
  \/ TrailingMatch
  \/ NoCvvMatch
  \/ Finish
  \/ CallAgain

SpecTwice == InitTwice /\ [][NextTwice]_vars

----------------------------------------------------------------------------
(* validate_card_format called alone, on candidates given by their fields *)

N16 == <<"4">> \o Rep("1", 15)

NumberFields ==
  {N16, Rep("1", 15), Rep("1", 17), Rep("1", 15) \o <<"x">>, <<>>}

MonthFields ==
  {<<"0", "0">>, <<"0", "1">>, <<"1", "2">>, <<"1", "3">>, <<"1">>,
   <<"0", "1", "2">>, <<"1", "x">>}

YearFields ==
  {<<"2", "0", "1", "9">>, <<"2", "0", "2", "0">>, <<"2", "0", "4", "0">>,
   <<"2", "0", "4", "1">>, <<"2", "0", "2">>, <<"0", "2", "0", "3", "0">>,
   <<"2", "0", "x", "0">>}

\* the 4th field onward
RestFields ==
  {<<>>, << <<>> >>, << <<" ">> >>, << <<"1", "2">> >>, << <<"1", "2", "3">> >>,
   << <<"1", "2", "3", "4">> >>, << <<"1", "2", "3", "4", "5">> >>,
   << <<"1", "2", "x">> >>, << <<" ", "o", "k">> >>,
   << <<"1", "2", "3">>, <<>> >>, << <<>>, <<" ", "x">> >>,
   << <<" ", "a">>, <<"b">> >>}

CandidateFields ==
  {<<n, m, y>> \o r :
     n \in NumberFields, m \in MonthFields, y \in YearFields, r \in RestFields}
  \cup {<<N16>>, <<N16, <<"0", "1">> >>}

FormatTypes == {"with_cvv", "no_cvv", "trailing", "other"}

\* '|'.join(fields)
RECURSIVE Join(_)
Join(fs) ==
  IF Len(fs) = 1 THEN fs[1] ELSE fs[1] \o <<"|">> \o Join(Tail(fs))

InitValidate ==
  /\ fields \in CandidateFields
  /\ format_type \in FormatTypes
  /\ vpc = "call"
  /\ valid = FALSE
  /\ text = <<>>
  /\ chunk_size = DefaultChunkSize
  /\ include_no_cvv = FALSE
  /\ include_trailing_info = FALSE
  /\ caller = "direct"
  /\ max_display_results = 0
  /\ pc = "done"
  /\ i = 0
  /\ matches = <<>>
  /\ k = 1
  /\ seen = {}
  /\ yielded = <<>>
  /\ display_results = <<>>
  /\ total_count = 0
  /\ download_buffer = <<>>
  /\ returned = NoResult
  /\ run = 1
  /\ previous = NoCall

Validate ==
  /\ vpc = "call"
  /\ valid' = validate_card_format(Join(fields), format_type)
  /\ vpc' = "returned"
  /\ UNCHANGED <<args, gen, yielded, acc, returned, fields, format_type, calls>>

SpecValidate == InitValidate /\ [][Validate]_vars

----------------------------------------------------------------------------
(* Properties *)

DigitChars == <<"0", "1", "2", "3", "4", "5", "6", "7", "8", "9">>

TwoDigits(n) == <<DigitChars[(n \div 10) + 1], DigitChars[(n % 10) + 1]>>

FourDigits(n) == TwoDigits(n \div 100) \o TwoDigits(n % 100)

\* the months 01..12 and the years 2020..2040 as they are written
ValidMonths == {TwoDigits(n) : n \in 1..12}
ValidYears == {FourDigits(n) : n \in 2020..2040}

AllDigits(s) == \A j \in 1..Len(s) : s[j] \in Digits

AllSpace(s) == \A j \in 1..Len(s) : s[j] \in {" ", "\t", "\n", "\r", "\f"}

\* t has at p a card head: 16 digits | valid month | valid year |
HasCardAt(t, p) ==
  /\ p >= 1 /\ p + 24 <= Len(t)
  /\ AllDigits(SubSeq(t, p, p + 15))
  /\ t[p + 16] = "|"
  /\ SubSeq(t, p + 17, p + 18) \in ValidMonths
  /\ t[p + 19] = "|"
  /\ SubSeq(t, p + 20, p + 23) \in ValidYears
  /\ t[p + 24] = "|"

\* t has at p a valid with-CVV token with a CVV of c digits, word-bounded
CvvTokenAt(t, p, c) ==
  /\ HasCardAt(t, p)
  /\ p + 24 + c <= Len(t)
  /\ AllDigits(SubSeq(t, p + 25, p + 24 + c))
  /\ p = 1 \/ ~IsWord(t[p - 1])
  /\ p + 24 + c = Len(t) \/ ~IsWord(t[p + 25 + c])

\* how many times the generator has yielded the string
Count(card) == Cardinality({n \in 1..Len(yielded) : yielded[n].card = card})

YieldsOf(family) == {n \in 1..Len(yielded) : yielded[n].family = family}

Pipes(s) == {j \in 1..Len(s) : s[j] = "|"}

\* C1: the generator never yields the same string twice, whatever the text, the
\* chunk size and the flags
C1_NoStringTwice ==
  \A m, n \in 1..Len(yielded) : m # n => yielded[m].card # yielded[n].card

\* a text with the same with-CVV token twice, scanned in several chunks, has
\* yielded it once
C1_Witness ==
  /\ pc = "done"
  /\ i > chunk_size
  /\ LET found == findall("with_cvv", text) IN
       /\ Len(found) = 2
       /\ found[1] = found[2]
       /\ Len(yielded) = 1
       /\ yielded[1].card = found[1]

\* C2: when the scan is over, every valid word-bounded with-CVV token of the
\* text, at whatever offset, has been yielded exactly once
C2_TokenExactlyOnce ==
  pc = "done" =>
    \A p \in 1..Len(text) : \A c \in {3, 4} :
      CvvTokenAt(text, p, c) => Count(SubSeq(text, p, p + 24 + c)) = 1

\* a token that starts at offset chunk_size - 10, so that the nominal end of the
\* first chunk falls inside it, has been yielded once
C2_Witness ==
  /\ pc = "done"
  /\ caller = "direct"
  /\ chunk_size > 10
  /\ CvvTokenAt(text, chunk_size - 10 + 1, 3)
  /\ Count(SubSeq(text, chunk_size - 10 + 1, chunk_size - 10 + 1 + 27)) = 1

\* what C3 says validate_card_format accepts, on the fields of the candidate
C3_Accepted(f, ft) ==
  /\ Len(f) >= 3
  /\ Len(f[1]) = 16 /\ AllDigits(f[1])
  /\ f[2] \in ValidMonths
  /\ f[3] \in ValidYears
  /\ CASE ft = "with_cvv" -> Len(f) = 4 /\ Len(f[4]) \in {3, 4} /\ AllDigits(f[4])
       [] ft = "no_cvv" -> Len(f) = 4 /\ AllSpace(f[4])
       [] ft = "trailing" -> Len(f) >= 4

C4_OnlyWithCvv ==
  ~include_no_cvv /\ ~include_trailing_info =>
    \A n \in 1..Len(yielded) :
      LET card == yielded[n].card
          last == CHOOSE j \in Pipes(card) : \A j2 \in Pipes(card) : j2 <= j
      IN /\ Cardinality(Pipes(card)) = 3
         /\ Len(card) - last \in {3, 4}
         /\ AllDigits(SubSeq(card, last + 1, Len(card)))

\* a text with a bare card and a card with trailing text, both flags off: only
\* the with-CVV string has been yielded
C4_Witness ==
  /\ pc = "done"
  /\ ~include_no_cvv /\ ~include_trailing_info
  /\ findall("no_cvv", text) # <<>>
  /\ findall("trailing", text) # <<>>
  /\ Len(yielded) = 1

\* the head number|month|year| of a yielded string: up to its third pipe
HeadOf(card) ==
  SubSeq(card, 1, CHOOSE j \in Pipes(card) :
                    Cardinality({j2 \in Pipes(card) : j2 <= j}) = 3)

\* C5: no two strings yielded by the trailing-info path have the same
\* number|month|year| head
C5_OneTrailingPerCard ==
  \A m, n \in YieldsOf("trailing") :
    m # n => HeadOf(yielded[m].card) # HeadOf(yielded[n].card)

\* the text has the same card twice with different trailing texts; one
\* trailing-info record has been yielded
C5_Witness ==
  /\ pc = "done"
  /\ include_trailing_info
  /\ LET found == findall("trailing", text) IN
       /\ Len(found) = 2
       /\ HeadOf(found[1]) = HeadOf(found[2])
       /\ RStrip(found[1]) # RStrip(found[2])
  /\ Cardinality(YieldsOf("trailing")) = 1

\* each string followed by a newline
RECURSIVE LinesOf(_)
LinesOf(cards) ==
  IF cards = <<>> THEN <<>> ELSE Head(cards) \o <<"\n">> \o LinesOf(Tail(cards))

Returned == pc = "done" /\ caller = "process"

\* C6: process_large_text returns as display list the first
\* min(max_display_results, total) yielded strings, as total count the number of
\* yielded strings, and an export buffer built from all of them
C6_DisplayCapOnly ==
  Returned =>
    /\ returned.display = SubSeq(Cards, 1, Min(max_display_results, Len(Cards)))
    /\ returned.total = Len(Cards)
    /\ returned.content = LinesOf(Cards)

\* two strings yielded with a cap of 1: one displayed, two counted
C6_Witness ==
  /\ Returned
  /\ max_display_results = 1
  /\ Len(Cards) = 2
  /\ Len(returned.display) = 1
  /\ returned.total = 2

\* C7: the export buffer has exactly total_count lines, each one yielded string
C7_ExportLines ==
  Returned =>
    /\ returned.content = LinesOf(Cards)
    /\ Cardinality({j \in 1..Len(returned.content) : returned.content[j] = "\n"})
         = returned.total

\* C8: after an exception process_large_text returns an empty display list, a
\* count of 0 and an empty export buffer
C8_EmptyOnException ==
  pc = "failed" =>
    returned = [display |-> <<>>, total |-> 0, content |-> <<>>]

\* the exception came after results had been accumulated
C8_Witness ==
  /\ pc = "failed"
  /\ total_count > 0
  /\ display_results # <<>>
  /\ returned.total = 0

\* the text starts with a line number|month|year|, a blank, text, "(" at q, and
\* the first window reaches q
ParenLine(q) ==
  /\ HasCardAt(text, 1)
  /\ q \in 27..Len(text)
  /\ text[26] \in {" ", "\t"}
  /\ text[q] = "("
  /\ \A r \in 26..(q - 1) : text[r] \notin {"(", "\n", "\r"}
  /\ q - 1 <= chunk_size + Overlap

\* the line up to q, without the whitespace before q
RecordBefore(q) ==
  SubSeq(text, 1, CHOOSE e \in 25..(q - 1) :
                    /\ text[e] \notin {" ", "\t"}
                    /\ \A r \in (e + 1)..(q - 1) : text[r] \in {" ", "\t"})

C10_NoCvvShape ==
  /\ \A n \in YieldsOf("no_cvv") :
       Len(yielded[n].card) = 25 /\ HasCardAt(yielded[n].card, 1)
  /\ pc = "done" /\ include_no_cvv /\ text = CardA => Cards = <<CardA>>

C10_Witness ==
  /\ pc = "done"
  /\ include_no_cvv
  /\ text = CardA
  /\ Len(yielded) = 1
  /\ yielded[1].card = CardA
  /\ yielded[1].family = "no_cvv"

\* C11: a second call on the same text with the same chunk size and the same
\* flags has yielded, when it ends, the same strings in the same order as the
\* first call
C11_SameOutputTwice ==
  run = 2 /\ pc = "done" /\ chunk_size = previous.chunk_size =>
    Cards = previous.cards

\* both calls scanned several chunks and yielded two strings
C11_Witness ==
  /\ run = 2
  /\ pc = "done"
  /\ chunk_size = previous.chunk_size
  /\ i > chunk_size
  /\ Len(previous.cards) = 2
  /\ Cards = previous.cards

\* t has at p something of the form 16 digits | 2 digits | 4 digits |
LooksLikeCard(t, p) ==
  /\ p >= 1 /\ p + 24 <= Len(t)
  /\ AllDigits(SubSeq(t, p, p + 15))
  /\ t[p + 16] = "|"
  /\ AllDigits(SubSeq(t, p + 17, p + 18))
  /\ t[p + 19] = "|"
  /\ AllDigits(SubSeq(t, p + 20, p + 23))
  /\ t[p + 24] = "|"

\* the only card-like token of the text is a valid with-CVV token at p
OnlyCvvToken(p, c) ==
  /\ CvvTokenAt(text, p, c)
  /\ \A q \in 1..Len(text) : LooksLikeCard(text, q) => q = p

\* C12: with both flags on, a text whose only card-like token is one valid
\* with-CVV token yields, at any offset and chunk size, that string and no other
C12_OnlyTheCvvToken ==
  pc = "done" /\ include_no_cvv /\ include_trailing_info =>
    \A p \in 1..Len(text) : \A c \in {3, 4} :
      OnlyCvvToken(p, c) => Cards = <<SubSeq(text, p, p + 24 + c)>>

\* the end of the line text of a token at p: the first "(", line break or end
\* of text from p + 25 on
SuffixEnd(p) ==
  CHOOSE q \in (p + 25)..(Len(text) + 1) :
    /\ q = Len(text) + 1 \/ text[q] \in {"(", "\n", "\r"}
    /\ \A r \in (p + 25)..(q - 1) : text[r] \notin {"(", "\n", "\r"}

\* the token at p with its complete suffix, trailing blanks removed
CompleteRecord(p) ==
  SubSeq(text, p, CHOOSE e \in (p + 24)..(SuffixEnd(p) - 1) :
                    /\ text[e] \notin {" ", "\t"}
                    /\ \A r \in (e + 1)..(SuffixEnd(p) - 1) : text[r] \in {" ", "\t"})

\* the only card-like token of the text is a trailing-info token at p: a valid
\* word-bounded head, a blank, and a suffix that is not blank, of at most 300
\* characters in all
OnlyTrailingToken(p) ==
  /\ HasCardAt(text, p)
  /\ p = 1 \/ ~IsWord(text[p - 1])
  /\ p + 25 <= Len(text) /\ text[p + 25] \in {" ", "\t"}
  /\ \E r \in (p + 25)..(SuffixEnd(p) - 1) : text[r] \notin {" ", "\t"}
  /\ SuffixEnd(p) - p <= Overlap
  /\ \A q \in 1..Len(text) : LooksLikeCard(text, q) => q = p

\* C13: with include_trailing_info, the trailing-info path yields for such a
\* token the record with the complete suffix, and no shortened version of it,
\* wherever the chunks and the windows end
C13_CompleteSuffix ==
  pc = "done" /\ include_trailing_info =>
    \A p \in 1..Len(text) :
      OnlyTrailingToken(p) =>
        {yielded[n].card : n \in YieldsOf("trailing")} = {CompleteRecord(p)}

\* C14: after a with-CVV record has been yielded, the trailing-info path yields
\* no record with the same number|month|year| head
C14_CvvBlocksTrailing ==
  \A m, n \in 1..Len(yielded) :
    /\ m < n
    /\ yielded[m].family = "with_cvv"
    /\ yielded[n].family = "trailing"
    => HeadOf(yielded[m].card) # HeadOf(yielded[n].card)

\* C15: no yielded string contains a newline or a carriage return
C15_NoLineBreak ==
  \A n \in 1..Len(yielded) :
    \A j \in 1..Len(yielded[n].card) : yielded[n].card[j] \notin {"\n", "\r"}

\* the place of a family in the order with-CVV, trailing-info, no-CVV
Rank(family) ==
  CASE family = "with_cvv" -> 1 [] family = "trailing" -> 2 [] family = "no_cvv" -> 3

\* y was yielded in an earlier chunk than z, or in the same chunk by an earlier
\* family, or by the same family at an earlier match
Before(y, z) ==
  \/ y.at < z.at
  \/ y.at = z.at /\ Rank(y.family) < Rank(z.family)
  \/ y.at = z.at /\ y.family = z.family /\ y.index < z.index

\* the strings ms occur in s one after the other, from position p on
RECURSIVE LeftToRight(_, _, _)
LeftToRight(ms, s, p) ==
  \/ ms = <<>>
  \/ \E q \in p..Len(s) :
       /\ q + Len(ms[1]) - 1 <= Len(s)
       /\ SubSeq(s, q, q + Len(ms[1]) - 1) = ms[1]
       /\ LeftToRight(Tail(ms), s, q + Len(ms[1]))

\* the candidate string of a match, and the dedup key of a string, by family
Candidate(family, match) ==
  CASE family = "with_cvv" -> match
    [] family = "trailing" -> RStrip(match)
    [] family = "no_cvv" -> NoCvvClean(match)

KeyOf(family, card) == IF family = "trailing" THEN HeadOf(card) ELSE card

InPass == pc \in {"with_cvv", "trailing", "no_cvv"}

\* C16: the strings are yielded in the order chunk, then family (with-CVV,
\* trailing-info, no-CVV), then match from left to right; and a string is
\* yielded in the first pass in which its candidate validated with its key
\* unseen: the keys seen are those of the yielded strings, and every candidate
\* already iterated that validates has its key seen
C16_DiscoveryOrder ==
  /\ \A m, n \in 1..Len(yielded) : m < n => Before(yielded[m], yielded[n])
  /\ seen = {KeyOf(yielded[n].family, yielded[n].card) : n \in 1..Len(yielded)}
  /\ InPass =>
       /\ LeftToRight(matches, chunk, 1)
       /\ \A j \in 1..(k - 1) :
            validate_card_format(Candidate(pc, matches[j]), pc) =>
              KeyOf(pc, Candidate(pc, matches[j])) \in seen

\* one chunk has yielded a with-CVV string and then a trailing-info string,
\* though the trailing-info match lies to the left of the with-CVV match
C16_Witness ==
  /\ pc = "done"
  /\ Len(yielded) = 2
  /\ yielded[1].at = yielded[2].at
  /\ yielded[1].family = "with_cvv"
  /\ yielded[2].family = "trailing"
  /\ SubSeq(text, 1, Len(yielded[2].card)) = yielded[2].card
  /\ SubSeq(text, 1, Len(yielded[1].card)) # yielded[1].card

\* the set of the strings of a sequence
StringsOf(cards) == {cards[n] : n \in 1..Len(cards)}

\* C17: with the same text and flags, a call with any chunk size and a call
\* with one window over the whole text yield the same set of strings
C17_ChunkingChangesNothing ==
  run = 2 /\ pc = "done" /\ chunk_size >= Len(text) =>
    StringsOf(previous.cards) = StringsOf(Cards)

\* the yields of the trailing-info path and of the no-CVV path
LooseYields == YieldsOf("trailing") \cup YieldsOf("no_cvv")

\* C18: with both flags on, no two strings yielded by the trailing-info path
\* or the no-CVV path have the same number|month|year| head; and the one
\* yielded is the first discovered: every validating candidate of the two paths
\* already iterated has a yielded string of the two paths with its head
C18_OneLooseRecordPerCard ==
  include_no_cvv /\ include_trailing_info =>
    /\ \A m, n \in LooseYields :
         m # n => HeadOf(yielded[m].card) # HeadOf(yielded[n].card)
    /\ pc \in {"trailing", "no_cvv"} =>
         \A j \in 1..(k - 1) :
           validate_card_format(Candidate(pc, matches[j]), pc) =>
             \E n \in LooseYields :
               HeadOf(yielded[n].card) = HeadOf(Candidate(pc, matches[j]))

\* the no-CVV record of a card was discovered first, in an earlier window, and
\* the trailing-info match of the same card in the text has not been yielded
C18_Witness ==
  /\ pc = "done"
  /\ include_no_cvv /\ include_trailing_info
  /\ Len(yielded) = 1
  /\ yielded[1].family = "no_cvv"
  /\ LET found == findall("trailing", text) IN
       /\ Len(found) = 1
       /\ HeadOf(found[1]) = yielded[1].card
       /\ Len(RStrip(found[1])) > Len(yielded[1].card)

====
